---- MODULE Spec2Model ----
(***************************************************************************)
(* Model of openet/ssebop/model.py: the SSEBop Image class (scene          *)
(* identity, the Tcorr / Tmax / dT / elevation resolvers, the lazily       *)
(* evaluated etf property), the emissivity function and collection().      *)
(*                                                                         *)
(* Units.  Tcorr values are in thousandths (0.978 is 978).  Temperatures   *)
(* are in hundredths of a kelvin.  Time stamps are whole hours.  Strings   *)
(* whose characters the code inspects (system:index, SCENE_ID, WRS2_TILE)  *)
(* are sequences of one-character strings; keywords, which the code only   *)
(* upper/lower-cases and compares, are TLA+ strings.                       *)
(*                                                                         *)
(* Specifications.  Spec, SpecTcorr, SpecTmax, SpecEtf and SpecScene run   *)
(* one Image instance (construction, reads of etf, direct calls of the     *)
(* resolvers) from different sets of arguments and assets, and SpecDt      *)
(* construction and calls of _dt alone; SpecColl and SpecInterval run one  *)
(* call of collection() and SpecEmis one call of _emissivity; SpecReaders  *)
(* runs several threads reading etf on one instance.                       *)
(***************************************************************************)
EXTENDS Integers, Sequences, FiniteSets, TLC

VARIABLES
    \* ---- Image instance ----
    pc,               \* "new" before __init__ has run, "ready" after
    index,            \* system:index of the input image (self._index)
    time_start,       \* system:time_start of the input image, hours
    scene_id,         \* self._scene_id
    wrs2_tile,        \* self._wrs2_tile
    dt_source,        \* self._dt_source
    elev_source,      \* self._elev_source
    tcorr_source,     \* self._tcorr_source
    tmax_source,      \* self._tmax_source
    tdiff_threshold,  \* self._tdiff_threshold
    lst,              \* the pixel of self.lst
    lazy_etf,         \* the instance attribute _lazy_etf (Unset when absent)
    \* ---- assets read by the resolvers ----
    tables,           \* Tcorr table id -> its rows
    daily,            \* daily Tmax collection id -> time stamps of its images
    dt_asset,         \* pixel of the dT image of the scene's day of year
    \* ---- observations ----
    ret,              \* what the last call returned or raised
    calls,            \* how often the etf body and its resolvers have run
    \* ---- one call of collection() ----
    coll_args,        \* the arguments of the call
    coll_ret,         \* what the call returned or raised
    mapped,           \* the collections the per-scene function was mapped over
    interp_calls,     \* the calls of openet.interp.daily_et
    \* ---- one call of Image._emissivity ----
    ndvi,             \* the NDVI pixel, in fiftieths
    emissivity,       \* the pixel before and after the final clamp
    \* ---- concurrent readers of Image.etf ----
    readers           \* thread -> its position in _lazy_property and its locals

imageVars == <<pc, index, time_start, scene_id, wrs2_tile, dt_source, elev_source,
               tcorr_source, tmax_source, tdiff_threshold, lst, lazy_etf,
               tables, daily, dt_asset, ret, calls>>

collVars == <<coll_args, coll_ret, mapped, interp_calls>>
emisVars == <<ndvi, emissivity>>
readerVars == <<readers>>

vars == <<imageVars, collVars, emisVars, readerVars>>

----------------------------------------------------------------------------
(* Character strings.                                                      *)

RECURSIVE Join(_)
\* ee.String.cat chain of the tokens with '_' between them.
Join(toks) ==
    IF Len(toks) = 0 THEN <<>>
    ELSE IF Len(toks) = 1 THEN toks[1]
    ELSE toks[1] \o <<"_">> \o Join(Tail(toks))

RECURSIVE SplitFrom(_, _, _)
\* Tokens of s[i..] given the token cur collected so far.
SplitFrom(s, i, cur) ==
    IF i > Len(s) THEN <<cur>>
    ELSE IF s[i] = "_" THEN <<cur>> \o SplitFrom(s, i + 1, <<>>)
    ELSE SplitFrom(s, i + 1, Append(cur, s[i]))

\* ee.String(s).split('_')
Split(s) == SplitFrom(s, 1, <<>>)

\* ee.List / ee.String slice(start, end) with 0-based start, exclusive end,
\* cut to the length of the sequence.
Slice(s, start, end) ==
    LET lo == IF start < 0 THEN (IF Len(s) + start < 0 THEN 0 ELSE Len(s) + start)
              ELSE start
        hi == IF end > Len(s) THEN Len(s) ELSE end
    IN  IF lo >= hi THEN <<>> ELSE SubSeq(s, lo + 1, hi)

\* The first three elements instead of the last three.
SliceFirst3(l) == Slice(l, 0, 3)

\* ee.List(...).slice(-3): the last three elements (all of a shorter list).
SliceLast3(l) == Slice(l, 0 - 3, Len(l))

\* Image.__init__, lines 168-172: SCENE_ID from the (possibly merged) index.
\* get(k) past the end of the list is an error of the substrate; NoString
\* marks it.
NoString == <<"?">>

SceneIdOf(idx) ==
    LET l == SliceLast3(Split(idx))
    IN  IF Len(l) < 3 THEN NoString
        ELSE l[1] \o <<"_">> \o l[2] \o <<"_">> \o l[3]

\* Image.__init__, lines 174-176: WRS2_TILE from the scene id.
Wrs2TileOf(sid) == <<"p">> \o Slice(sid, 5, 8) \o <<"r">> \o Slice(sid, 8, 11)

----------------------------------------------------------------------------
(* Source selectors: a number, or a keyword string.                        *)

Kw(s) == [isnum |-> FALSE, str |-> s, val |-> 0]
Num(v) == [isnum |-> TRUE, str |-> "", val |-> v]

\* _is_number, lines 660-665: float(x) succeeds.  The model's keyword strings
\* are not numeric literals, so float() succeeds exactly on the numbers.
_is_number(x) == x.isnum

\* str.upper() over the strings of the model.
Upper(s) ==
    CASE s = "scene" -> "SCENE"
      [] s = "Month" -> "MONTH"
      [] s = "monthly" -> "MONTHLY"
      [] s = "Gridmet" -> "GRIDMET"
      [] s = "daymet" -> "DAYMET"
      [] s = "cimis" -> "CIMIS"
      [] s = "topowx_median_v0" -> "TOPOWX_MEDIAN_V0"
      [] s = "Daymet_Median_v1" -> "DAYMET_MEDIAN_V1"
      [] s = "daymet_median_v0" -> "DAYMET_MEDIAN_V0"
      [] s = "asset" -> "ASSET"
      [] s = "srtm" -> "SRTM"
      [] s = "bogus" -> "BOGUS"
      [] s = "projects/usgs-ssebop/srtm_1km" -> "PROJECTS/USGS-SSEBOP/SRTM_1KM"
      [] s = "Users/me/dem" -> "USERS/ME/DEM"
      [] s = "etf" -> "ETF"
      [] s = "Etf" -> "ETF"
      [] s = "ndvi" -> "NDVI"
      [] s = "lst" -> "LST"
      [] OTHER -> s

\* str.lower() over the strings of the model.
Lower(s) ==
    CASE s = "ETF" -> "etf"
      [] s = "Etf" -> "etf"
      [] s = "NDVI" -> "ndvi"
      [] s = "LST" -> "lst"
      [] s = "Users/me/dem" -> "users/me/dem"
      [] s = "ASSET" -> "asset"
      [] s = "SRTM" -> "srtm"
      [] s = "GTOPO" -> "gtopo"
      [] s = "NED" -> "ned"
      [] s = "BOGUS" -> "bogus"
      [] OTHER -> s

\* Outcomes of a call: a returned value, or the exception that ended it.
Ok(v) == [status |-> "ok", value |-> v]
Raised(e) == [status |-> e, value |-> <<>>]
SystemExit == Raised("SystemExit")
KeyError == Raised("KeyError")
AttributeError == Raised("AttributeError")

----------------------------------------------------------------------------
(* Dates (lines 178-184).  Hour 0 is 2016-12-30T00:00Z; the model's time   *)
(* stamps stay within a few days of it, across the end of a leap year.     *)

HoursPerDay == 24

\* _date_to_time_0utc, lines 645-657: the 0 UTC time of the date.
_date_to_time_0utc(t) == (t \div HoursPerDay) * HoursPerDay

\* self._start_date, self._end_date (lines 182-183)
_start_date == _date_to_time_0utc(time_start)
_end_date == _start_date + HoursPerDay

\* self._month (line 181): December for the first two days, January after.
_month == IF time_start \div HoursPerDay < 2 THEN 12 ELSE 1

\* self._doy (line 184): 2016-12-30 is day 365 of a leap year.
_doy == IF time_start \div HoursPerDay < 2
        THEN 365 + (time_start \div HoursPerDay)
        ELSE (time_start \div HoursPerDay) - 1

----------------------------------------------------------------------------
(* Tcorr (Image._tcorr, lines 271-353).                                    *)

scene_coll_dict ==
    ("CIMIS" :> "projects/usgs-ssebop/tcorr/cimis_scene") @@
    ("DAYMET" :> "projects/usgs-ssebop/tcorr/daymet_scene") @@
    ("GRIDMET" :> "projects/usgs-ssebop/tcorr/gridmet_scene") @@
    ("CIMIS_MEDIAN_V1" :> "projects/usgs-ssebop/tcorr/cimis_median_v1_scene") @@
    ("DAYMET_MEDIAN_V0" :> "projects/usgs-ssebop/tcorr/daymet_median_v0_scene") @@
    ("DAYMET_MEDIAN_V1" :> "projects/usgs-ssebop/tcorr/daymet_median_v1_scene") @@
    ("GRIDMET_MEDIAN_V1" :> "projects/usgs-ssebop/tcorr/gridmet_median_v1_scene") @@
    ("TOPOWX_MEDIAN_V0" :> "projects/usgs-ssebop/tcorr/topowx_median_v0_scene")

month_coll_dict ==
    ("CIMIS" :> "projects/usgs-ssebop/tcorr/cimis_monthly") @@
    ("DAYMET" :> "projects/usgs-ssebop/tcorr/daymet_monthly") @@
    ("GRIDMET" :> "projects/usgs-ssebop/tcorr/gridmet_monthly") @@
    ("CIMIS_MEDIAN_V1" :> "projects/usgs-ssebop/tcorr/cimis_median_v1_monthly") @@
    ("DAYMET_MEDIAN_V0" :> "projects/usgs-ssebop/tcorr/daymet_median_v0_monthly") @@
    ("DAYMET_MEDIAN_V1" :> "projects/usgs-ssebop/tcorr/daymet_median_v1_monthly") @@
    ("GRIDMET_MEDIAN_V1" :> "projects/usgs-ssebop/tcorr/gridmet_median_v1_monthly") @@
    ("TOPOWX_MEDIAN_V0" :> "projects/usgs-ssebop/tcorr/topowx_median_v0_monthly")

DefaultTcorr == 978

default_value_dict ==
    [k \in {"CIMIS", "DAYMET", "GRIDMET", "TOPOWX", "CIMIS_MEDIAN_V1",
            "DAYMET_MEDIAN_V0", "DAYMET_MEDIAN_V1", "GRIDMET_MEDIAN_V1",
            "TOPOWX_MEDIAN_V0"} |-> DefaultTcorr]

SceneTableIds == {scene_coll_dict[k] : k \in DOMAIN scene_coll_dict}
MonthTableIds == {month_coll_dict[k] : k \in DOMAIN month_coll_dict}

\* ee.FeatureCollection(id)
FeatureCollection(id) == tables[id]

\* FeatureCollection.merge
Merge(a, b) == a \o b

RECURSIVE InsertByIndex(_, _)
InsertByIndex(f, sorted) ==
    IF sorted = <<>> THEN <<f>>
    ELSE IF f.INDEX < Head(sorted).INDEX THEN <<f>> \o sorted
    ELSE <<Head(sorted)>> \o InsertByIndex(f, Tail(sorted))

\* The collection left as merged: default row first.
Unsorted(coll) == coll

RECURSIVE InsertionSort(_)
InsertionSort(coll) ==
    IF coll = <<>> THEN <<>>
    ELSE InsertByIndex(coll[Len(coll)], InsertionSort(SubSeq(coll, 1, Len(coll) - 1)))

\* FeatureCollection.sort('INDEX'): ascending.
SortByIndex(coll) == InsertionSort(coll)

\* The collection built at lines 330-347 for a valid tmax_key, or the
\* exception raised on the way.
TcorrColl(tmax_key) ==
    LET default_coll == <<[INDEX |-> 2, TCORR |-> default_value_dict[tmax_key]]>>
    IN  IF tmax_key \notin DOMAIN month_coll_dict THEN KeyError
        ELSE LET month_coll ==
                     SelectSeq(FeatureCollection(month_coll_dict[tmax_key]),
                               LAMBDA f : f.WRS2_TILE = wrs2_tile /\ f.MONTH = _month)
             IN  IF Upper(tcorr_source.str) = "SCENE"
                 THEN IF tmax_key \notin DOMAIN scene_coll_dict THEN KeyError
                      ELSE LET scene_coll ==
                                   SelectSeq(FeatureCollection(scene_coll_dict[tmax_key]),
                                             LAMBDA f : f.SCENE_ID = scene_id)
                           IN  Ok(SortByIndex(Merge(Merge(default_coll, month_coll),
                                                    scene_coll)))
                 ELSE IF Upper(tcorr_source.str) = "MONTH"
                 THEN Ok(SortByIndex(Merge(default_coll, month_coll)))
                 ELSE SystemExit

\* The keyword path with a numeric tmax_source given the default record
\* instead of reaching .upper().
TcorrLookupDefaultForNumber ==
    IF _is_number(tmax_source)
    THEN Ok([tcorr |-> DefaultTcorr, tcorr_index |-> 2])
    ELSE LET tmax_key == Upper(tmax_source.str)
         IN  IF tmax_key \notin DOMAIN default_value_dict THEN SystemExit
             ELSE LET tcorr_coll == TcorrColl(tmax_key)
                  IN  IF tcorr_coll.status # "ok" THEN tcorr_coll
                      ELSE LET tcorr_ftr == Head(tcorr_coll.value)
                           IN  Ok([tcorr |-> tcorr_ftr.TCORR,
                                   tcorr_index |-> tcorr_ftr.INDEX])

\* Lines 322-353: the keyword path of _tcorr.  A number has no .upper():
\* line 323 raises AttributeError.
TcorrLookup ==
    IF _is_number(tmax_source) THEN AttributeError
    ELSE LET tmax_key == Upper(tmax_source.str)
         IN  IF tmax_key \notin DOMAIN default_value_dict THEN SystemExit
             ELSE LET tcorr_coll == TcorrColl(tmax_key)
                  IN  IF tcorr_coll.status # "ok" THEN tcorr_coll
                      ELSE LET tcorr_ftr == Head(tcorr_coll.value)
                           IN  Ok([tcorr |-> tcorr_ftr.TCORR,
                                   tcorr_index |-> tcorr_ftr.INDEX])

\* _tcorr with the tmax_source check of lines 322-328 moved to the top.
_tcorr_tmax_checked_first ==
    IF ~_is_number(tmax_source)
       /\ Upper(tmax_source.str) \notin DOMAIN default_value_dict
    THEN SystemExit
    ELSE IF _is_number(tcorr_source)
    THEN Ok([tcorr |-> tcorr_source.val, tcorr_index |-> 3])
    ELSE TcorrLookup

\* Image._tcorr: Ok([tcorr, tcorr_index]) or the exception raised.
_tcorr ==
    IF _is_number(tcorr_source)
    THEN Ok([tcorr |-> tcorr_source.val, tcorr_index |-> 3])
    ELSE TcorrLookup

----------------------------------------------------------------------------
(* Tmax (Image._tmax, lines 355-471).  Temperatures are in hundredths of   *)
(* a kelvin (of a degree Celsius for the CIMIS and DAYMET daily bands).    *)

\* datetime.datetime.today().strftime('%Y-%m-%d'), line 358
date_today == <<"today">>

CIMIS_DAILY == "projects/climate-engine/cimis/daily"
DAYMET_DAILY == "NASA/ORNL/DAYMET_V3"
GRIDMET_DAILY == "IDAHO_EPSCOR/GRIDMET"
DailyIds == {CIMIS_DAILY, DAYMET_DAILY, GRIDMET_DAILY}

\* The pixel of the image of a daily collection stamped t, in the units of
\* its band, and of the day-of-year median composite of a family.
DailyPx(id, t) == IF id = GRIDMET_DAILY THEN 30000 + t ELSE 2500 + t
MedianPx(family, version, doy) == 29000 + doy

\* _c_to_k, lines 639-642
_c_to_k(px) == px + 27315

\* ImageCollection(id).filterDate(start, end): the stamps in [start, end).
FilterDate(id, start, end) == {t \in daily[id] : start <= t /\ t < end}

\* ImageCollection.first(): the earliest image.
First(stamps) == CHOOSE t \in stamps : \A u \in stamps : t <= u

\* Image.set('TMAX_VERSION', version)
SetVersion(px, version) == [px |-> px, TMAX_VERSION |-> version]

\* The end of the filterDate window of a daily keyword (lines 366, 384, 400).
DailyWindowEndSceneDay(key) == _end_date

DailyWindowEnd(key) ==
    IF key = "DAYMET" THEN _end_date + HoursPerDay ELSE _end_date

\* The three daily branches, lines 364-412.
DailyOrMedian(key, id, family, median_version, convert) ==
    LET daily_coll == FilterDate(id, _start_date, DailyWindowEnd(key))
        median_image == SetVersion(MedianPx(family, median_version, _doy),
                              <<median_version>>)
    IN  IF Cardinality(daily_coll) > 0
        THEN LET raw == DailyPx(id, First(daily_coll))
             IN  SetVersion(IF convert THEN _c_to_k(raw) ELSE raw, date_today)
        ELSE median_image

\* The median branches, lines 430-459.
Median(family, median_version) ==
    SetVersion(MedianPx(family, median_version, _doy), <<median_version>>)

\* tmax_image of lines 360-469, or the exception raised.
TmaxImage ==
    IF _is_number(tmax_source)
    THEN Ok(SetVersion(tmax_source.val, <<"CUSTOM_", tmax_source.val>>))
    ELSE LET key == Upper(tmax_source.str)
         IN  CASE key = "CIMIS" ->
                    Ok(DailyOrMedian(key, CIMIS_DAILY, "cimis", "median_v1", TRUE))
               [] key = "DAYMET" ->
                    Ok(DailyOrMedian(key, DAYMET_DAILY, "daymet", "median_v0", TRUE))
               [] key = "GRIDMET" ->
                    Ok(DailyOrMedian(key, GRIDMET_DAILY, "gridmet", "median_v1", FALSE))
               [] key = "CIMIS_MEDIAN_V1" -> Ok(Median("cimis", "median_v1"))
               [] key = "DAYMET_MEDIAN_V0" -> Ok(Median("daymet", "median_v0"))
               [] key = "DAYMET_MEDIAN_V1" -> Ok(Median("daymet", "median_v1"))
               [] key = "GRIDMET_MEDIAN_V1" -> Ok(Median("gridmet", "median_v1"))
               [] key = "TOPOWX_MEDIAN_V0" -> Ok(Median("topowx", "median_v0"))
               [] OTHER -> SystemExit

\* Image._tmax: the image with TMAX_SOURCE set (line 471).
_tmax ==
    LET r == TmaxImage
    IN  IF r.status # "ok" THEN r
        ELSE Ok([px |-> r.value.px, TMAX_VERSION |-> r.value.TMAX_VERSION,
                 TMAX_SOURCE |-> tmax_source])

----------------------------------------------------------------------------
(* dT (Image._dt, lines 221-248) and elevation (Image._elev, 250-269).     *)

\* Image.clamp(lo, hi)
Clamp(x, lo, hi) == IF x < lo THEN lo ELSE IF x > hi THEN hi ELSE x

DtMin == 600
DtMax == 2500

\* _dt with the clamp of lines 229 and 234 applied to a number as well.
_dt_clamping_numbers ==
    IF _is_number(dt_source) THEN Ok(Clamp(dt_source.val, DtMin, DtMax))
    ELSE IF Upper(dt_source.str) \in {"DAYMET_MEDIAN_V0", "DAYMET_MEDIAN_V1"}
    THEN Ok(Clamp(dt_asset, DtMin, DtMax))
    ELSE SystemExit

\* Image._dt: the pixel of dt_img, or the exception raised.
_dt ==
    IF _is_number(dt_source) THEN Ok(dt_source.val)
    ELSE IF Upper(dt_source.str) \in {"DAYMET_MEDIAN_V0"}
    THEN Ok(Clamp(dt_asset, DtMin, DtMax))
    ELSE IF Upper(dt_source.str) = "DAYMET_MEDIAN_V1"
    THEN Ok(Clamp(dt_asset, DtMin, DtMax))
    ELSE SystemExit

\* str.startswith on the lower-cased source
StartsWithProjectsOrUsers(s) ==
    s \in {"projects/usgs-ssebop/srtm_1km", "users/me/dem"}

_elev ==
    IF _is_number(elev_source) THEN Ok([elev |-> <<"constant", elev_source.val>>])
    ELSE IF Upper(elev_source.str) = "ASSET"
    THEN Ok([elev |-> <<"projects/usgs-ssebop/srtm_1km">>])
    ELSE IF Upper(elev_source.str) = "GTOPO" THEN Ok([elev |-> <<"USGS/GTOPO30">>])
    ELSE IF Upper(elev_source.str) = "NED" THEN Ok([elev |-> <<"USGS/NED">>])
    ELSE IF Upper(elev_source.str) = "SRTM" THEN Ok([elev |-> <<"CGIAR/SRTM90_V4">>])
    ELSE IF StartsWithProjectsOrUsers(Lower(elev_source.str))
    THEN Ok([elev |-> <<elev_source.str>>])
    ELSE SystemExit

----------------------------------------------------------------------------
(* ETf (Image.etf, lines 194-219).  A pixel is a mask bit and a value, the *)
(* value a fraction n / d with d > 0.                                      *)

Px(mask, n, d) == [mask |-> mask, n |-> n, d |-> d]

\* '(lst * (-1) + tmax * tcorr + dt) / dt' with tcorr in thousandths; dt # 0.
Expression(l, tmax, tcorr, dt) ==
    LET num == l * (0 - 1000) + tmax * tcorr + dt * 1000
    IN  IF dt > 0 THEN Px(TRUE, num, 1000 * dt)
        ELSE Px(TRUE, 0 - num, 0 - (1000 * dt))

\* Image.lt(1.3): the pixel's value is below 13/10.
Lt13(px) == 10 * px.n < 13 * px.d

\* Image.updateMask(m)
UpdateMask(px, m) == Px(px.mask /\ m, px.n, px.d)

\* Image.clamp(0, 1.05): 1.05 is 21/20.
Clamp0to105(px) ==
    IF px.n < 0 THEN Px(px.mask, 0, px.d)
    ELSE IF 20 * px.n > 21 * px.d THEN Px(px.mask, 21 * (px.d \div 20), px.d)
    ELSE px

\* Lines 208-213 with the cutoff taken after the clamp.
EtfPixelClampFirst(l, tmax, tcorr, dt, thr) ==
    LET etf == Clamp0to105(Expression(l, tmax, tcorr, dt))
    IN  UpdateMask(UpdateMask(etf, Lt13(etf)), tmax - l <= thr)

\* Lines 208-213: expression, mask below 1.3, clamp, Tdiff mask.
EtfPixel(l, tmax, tcorr, dt, thr) ==
    LET etf == Expression(l, tmax, tcorr, dt)
    IN  UpdateMask(Clamp0to105(UpdateMask(etf, Lt13(etf))), tmax - l <= thr)

\* The body of Image.etf: the result image, or the exception of the first
\* resolver that raised, with the resolvers that ran.
etf ==
    LET t == _tcorr
        m == _tmax
        d == _dt
    IN  IF t.status # "ok" THEN [out |-> t, ran |-> <<"_tcorr">>]
        ELSE IF m.status # "ok" THEN [out |-> m, ran |-> <<"_tcorr", "_tmax">>]
        ELSE IF d.status # "ok" THEN [out |-> d, ran |-> <<"_tcorr", "_tmax", "_dt">>]
        ELSE [out |-> Ok([px |-> EtfPixel(lst, m.value.px, t.value.tcorr, d.value,
                                           tdiff_threshold),
                          index |-> index,
                          time_start |-> time_start,
                          TCORR |-> t.value.tcorr,
                          TCORR_INDEX |-> t.value.tcorr_index]),
              ran |-> <<"_tcorr", "_tmax", "_dt">>]

----------------------------------------------------------------------------
(* The Image instance.                                                     *)

MaxReads == 3

Unset == [set |-> FALSE, value |-> <<>>]
Stored(v) == [set |-> TRUE, value |-> v]

Called(op, r) == [op |-> op, status |-> r.status, value |-> r.value]
NoCall == [op |-> "", status |-> "", value |-> <<>>]
NoCalls == [reads |-> 0, etf |-> 0, tcorr |-> 0, tmax |-> 0, dt |-> 0]

Count(ran, name) == Cardinality({i \in DOMAIN ran : ran[i] = name})

\* Image.__init__, lines 158-192.
Construct ==
    /\ pc = "new"
    /\ pc' = "ready"
    /\ scene_id' = SceneIdOf(index)
    /\ wrs2_tile' = Wrs2TileOf(SceneIdOf(index))
    /\ UNCHANGED <<index, time_start, dt_source, elev_source, tcorr_source,
                   tmax_source, tdiff_threshold, lst, lazy_etf, tables, daily,
                   dt_asset, ret, calls>>
    /\ UNCHANGED <<collVars, emisVars, readerVars>>

\* The test of line 19 never finding the attribute.
NeverHasLazyAttr == FALSE

\* hasattr(self, '_lazy_etf'), line 19
HasLazyAttr == lazy_etf.set

\* One read of the etf property: _lazy_property, lines 17-21.
ReadEtf ==
    /\ pc = "ready"
    /\ calls.reads < MaxReads
    /\ IF ~HasLazyAttr
       THEN LET r == etf
            IN  /\ lazy_etf' = IF r.out.status = "ok" THEN Stored(r.out.value)
                               ELSE lazy_etf
                /\ ret' = Called("etf", r.out)
                /\ calls' = [reads |-> calls.reads + 1,
                             etf |-> calls.etf + 1,
                             tcorr |-> calls.tcorr + Count(r.ran, "_tcorr"),
                             tmax |-> calls.tmax + Count(r.ran, "_tmax"),
                             dt |-> calls.dt + Count(r.ran, "_dt")]
       ELSE /\ ret' = Called("etf", Ok(lazy_etf.value))
            /\ calls' = [calls EXCEPT !.reads = @ + 1]
            /\ UNCHANGED lazy_etf
    /\ UNCHANGED <<pc, index, time_start, scene_id, wrs2_tile, dt_source,
                   elev_source, tcorr_source, tmax_source, tdiff_threshold, lst,
                   tables, daily, dt_asset>>
    /\ UNCHANGED <<collVars, emisVars, readerVars>>

\* A direct call of one resolver method.
CallMethod(op, r) ==
    /\ pc = "ready"
    /\ ret' = Called(op, r)
    /\ UNCHANGED <<pc, index, time_start, scene_id, wrs2_tile, dt_source,
                   elev_source, tcorr_source, tmax_source, tdiff_threshold, lst,
                   lazy_etf, tables, daily, dt_asset, calls>>
    /\ UNCHANGED <<collVars, emisVars, readerVars>>

Call_tcorr == CallMethod("_tcorr", _tcorr)
Call_tmax == CallMethod("_tmax", _tmax)
Call_dt == CallMethod("_dt", _dt)
Call_elev == CallMethod("_elev", _elev)

NextImage ==
    \/ Construct
    \/ ReadEtf
    \/ Call_tcorr
    \/ Call_tmax
    \/ Call_dt
    \/ Call_elev

\* Construction and direct calls of _dt only.
NextDt ==
    \/ Construct
    \/ Call_dt

----------------------------------------------------------------------------
(* Concurrent reads of Image.etf.  _lazy_property (lines 17-21) holds no   *)
(* lock: between the hasattr test, the call of fn, the setattr and the     *)
(* getattr another thread may run.  The body of etf only reads the         *)
(* instance's configuration, which nothing changes after __init__, so the  *)
(* call of fn is one step.                                                 *)

MaxThreads == 2
Threads == 1..MaxThreads

\* A thread that has not yet entered the property.
ReaderAtEntry == [pc |-> "line19", val |-> <<>>, out |-> NoCall]

\* Line 19: the hasattr test.
TestAttr(t) ==
    /\ pc = "ready"
    /\ readers[t].pc = "line19"
    /\ readers' = [readers EXCEPT ![t].pc = IF HasLazyAttr THEN "line21"
                                            ELSE "line20_fn"]
    /\ calls' = [calls EXCEPT !.reads = @ + 1]
    /\ UNCHANGED <<pc, index, time_start, scene_id, wrs2_tile, dt_source,
                   elev_source, tcorr_source, tmax_source, tdiff_threshold, lst,
                   lazy_etf, tables, daily, dt_asset, ret>>
    /\ UNCHANGED <<collVars, emisVars>>

\* Line 20, the argument of setattr: fn(self) runs the body of etf.  An
\* exception leaves the property at once, with nothing stored.
CallFn(t) ==
    /\ readers[t].pc = "line20_fn"
    /\ LET r == etf
       IN  /\ readers' = [readers EXCEPT ![t] =
                             IF r.out.status = "ok"
                             THEN [pc |-> "line20_setattr", val |-> r.out.value,
                                   out |-> NoCall]
                             ELSE [pc |-> "raised", val |-> <<>>,
                                   out |-> Called("etf", r.out)]]
           /\ calls' = [calls EXCEPT !.etf = @ + 1,
                                     !.tcorr = @ + Count(r.ran, "_tcorr"),
                                     !.tmax = @ + Count(r.ran, "_tmax"),
                                     !.dt = @ + Count(r.ran, "_dt")]
    /\ UNCHANGED <<pc, index, time_start, scene_id, wrs2_tile, dt_source,
                   elev_source, tcorr_source, tmax_source, tdiff_threshold, lst,
                   lazy_etf, tables, daily, dt_asset, ret>>
    /\ UNCHANGED <<collVars, emisVars>>

\* Line 20: setattr stores what this thread computed.
SetAttr(t) ==
    /\ readers[t].pc = "line20_setattr"
    /\ lazy_etf' = Stored(readers[t].val)
    /\ readers' = [readers EXCEPT ![t].pc = "line21"]
    /\ UNCHANGED <<pc, index, time_start, scene_id, wrs2_tile, dt_source,
                   elev_source, tcorr_source, tmax_source, tdiff_threshold, lst,
                   tables, daily, dt_asset, ret, calls>>
    /\ UNCHANGED <<collVars, emisVars>>

\* Line 21: getattr returns what the attribute holds now.
GetAttr(t) ==
    /\ readers[t].pc = "line21"
    /\ readers' = [readers EXCEPT ![t].pc = "returned",
                                  ![t].out = Called("etf", Ok(lazy_etf.value))]
    /\ UNCHANGED <<imageVars, collVars, emisVars>>

NextReaders ==
    \/ Construct
    \/ \E t \in Threads : TestAttr(t)
    \/ \E t \in Threads : CallFn(t)
    \/ \E t \in Threads : SetAttr(t)
    \/ \E t \in Threads : GetAttr(t)

----------------------------------------------------------------------------
(* collection(), lines 26-112.                                             *)

landsat_c1_toa_collections ==
    {"LANDSAT/LC08/C01/T1_RT_TOA", "LANDSAT/LE07/C01/T1_RT_TOA",
     "LANDSAT/LC08/C01/T1_TOA", "LANDSAT/LE07/C01/T1_TOA",
     "LANDSAT/LT05/C01/T1_TOA"}

\* dir(Image): the attributes of the class (lst and ndvi are attributes of
\* instances only).
DirImage ==
    {"etf", "_dt", "_elev", "_tcorr", "_tmax", "from_landsat_c1_toa", "_ndvi",
     "_lst", "_emissivity", "__init__"}

UnsupportedVariable == Raised("ValueError: unsupported variable")
UnsupportedCollection == Raised("ValueError: unsupported collection")

\* compute handing the extra keyword arguments of the call to the Image.
MapComputeWithKwargs(coll_id, v, a) ==
    [coll_id |-> coll_id, start_date |-> a.start_date, end_date |-> a.end_date,
     geometry |-> a.geometry, image_kwargs |-> a.kwargs, variable |-> v]

\* Lines 84-87: one collection filtered and mapped with compute, which builds
\* each scene's Image with the default configuration (lines 78-80).
MapCompute(coll_id, v, a) ==
    [coll_id |-> coll_id, start_date |-> a.start_date, end_date |-> a.end_date,
     geometry |-> a.geometry, image_kwargs |-> <<>>, variable |-> v]

RECURSIVE BuildLoopSkipping(_, _, _, _)
\* The loop passing over an unsupported id instead of raising.
BuildLoopSkipping(v, a, i, done) ==
    IF i > Len(a.collections) THEN [raised |-> FALSE, mapped |-> done]
    ELSE IF a.collections[i] \in landsat_c1_toa_collections
    THEN BuildLoopSkipping(v, a, i + 1, Append(done, MapCompute(a.collections[i], v, a)))
    ELSE BuildLoopSkipping(v, a, i + 1, done)

RECURSIVE BuildLoop(_, _, _, _)
\* The loop of lines 75-93 from position i on, with the collections mapped
\* so far: all of them when the loop ends, those before the raise otherwise.
BuildLoop(v, a, i, done) ==
    IF i > Len(a.collections) THEN [raised |-> FALSE, mapped |-> done]
    ELSE IF a.collections[i] \in landsat_c1_toa_collections
    THEN BuildLoop(v, a, i + 1, Append(done, MapCompute(a.collections[i], v, a)))
    ELSE [raised |-> TRUE, mapped |-> done]

InterpDays == 32

\* Lines 103-110: the one call of the interpolation service.
DailyEt(a, variable_coll) ==
    [et_reference_coll |-> [id |-> "IDAHO_EPSCOR/GRIDMET", band |-> "etr",
                            start_date |-> a.start_date, end_date |-> a.end_date],
     variable_coll |-> variable_coll,
     interp_days |-> InterpDays,
     interp_type |-> "linear"]

\* The variable tests of lines 67-71 with the name taken as given.
VariableSupportedAsGiven(name) == name \in DirImage /\ name \in {"etf"}

\* Lines 67-71: the lower-cased name is an attribute of Image and is 'etf'.
VariableSupported(name) == Lower(name) \in DirImage /\ Lower(name) \in {"etf"}

\* The whole call.
Collection ==
    /\ coll_ret = NoCall
    /\ coll_args.called
    /\ LET v == Lower(coll_args.variable)
           b == BuildLoop(v, coll_args, 1, <<>>)
       IN  IF ~VariableSupported(coll_args.variable)
           THEN /\ coll_ret' = Called("collection", UnsupportedVariable)
                /\ UNCHANGED <<mapped, interp_calls>>
           ELSE IF b.raised
           THEN /\ coll_ret' = Called("collection", UnsupportedCollection)
                /\ mapped' = b.mapped
                /\ UNCHANGED interp_calls
           ELSE /\ mapped' = b.mapped
                /\ interp_calls' = Append(interp_calls, DailyEt(coll_args, b.mapped))
                /\ coll_ret' = Called("collection",
                                      Ok(<<"daily_et", DailyEt(coll_args, b.mapped)>>))
    /\ UNCHANGED <<coll_args, imageVars, emisVars, readerVars>>

----------------------------------------------------------------------------
(* Image._emissivity, lines 612-636.  NDVI is n / 50; emissivities are     *)
(* fractions e / 225 in units of 0.000005, so that every coefficient of    *)
(* the code is a whole number: 0.99 is 198000, 0.97 is 194000, 0.985 is    *)
(* 197000, 0.977 is 195400 and (1 - 0.97) * (0.55 * 0.99) is 3267.         *)

PvDen == 225

\* '((ndvi - 0.2) / 0.3) ** 2' as a numerator over PvDen
Pv(n) == (n - 10) * (n - 10)

\* '(((1 - 0.97) * (1 - Pv)) * (0.55 * 0.99))'
dE(n) == 3267 * (PvDen - Pv(n))

\* '((0.99 * Pv) + (0.97 * (1 - Pv)) + dE)'
RangeEmiss(n) == 198000 * Pv(n) + 194000 * (PvDen - Pv(n)) + dE(n)

\* Image.where(test, value)
Where(img, test, value) == IF test THEN value ELSE img

\* Lines 629-633 with the band of the last where() cut at 0.5 exclusive.
WhereChainOpen(n) ==
    Where(Where(Where(Where(n * 900000,
        n < 0, 197000 * PvDen),
        n >= 0 /\ n < 10, 195400 * PvDen),
        n > 25, 198000 * PvDen),
        n >= 10 /\ n < 25, RangeEmiss(n))

\* Lines 629-633: the chain of where() calls on the NDVI image.
WhereChain(n) ==
    Where(Where(Where(Where(n * 900000,
        n < 0, 197000 * PvDen),
        n >= 0 /\ n < 10, 195400 * PvDen),
        n > 25, 198000 * PvDen),
        n >= 10 /\ n <= 25, RangeEmiss(n))

\* Lines 629-635
_emissivity(n) ==
    [unclamped |-> WhereChain(n),
     value |-> Clamp(WhereChain(n), 195400 * PvDen, 198000 * PvDen)]

NoPixel == [unclamped |-> 0, value |-> 0]

Emissivity ==
    /\ ndvi.given
    /\ emissivity = NoPixel
    /\ emissivity' = _emissivity(ndvi.n)
    /\ UNCHANGED <<ndvi, imageVars, collVars, readerVars>>

----------------------------------------------------------------------------
(* Inputs.                                                                 *)

LC08 == <<"L", "C", "0", "8">>
LE07 == <<"L", "E", "0", "7">>
PathRow == <<"0", "4", "3", "0", "3", "3">>
Date == <<"2", "0", "1", "5", "0", "8", "0", "5">>
One == <<"1">>
Tokens == {LC08, PathRow, Date, One}

\* The index of the docstring (line 155), plain and merged.
Index0 == Join(<<LC08, PathRow, Date>>)
IndexMerged == Join(<<One, LC08, PathRow, Date>>)
IndexOther == Join(<<LE07, PathRow, Date>>)
Tile0 == <<"p", "0", "4", "3", "r", "0", "3", "3">>

MaxTokens == 5

\* Every index of three to MaxTokens tokens.
Indexes ==
    UNION {{Join(toks) : toks \in [1..n -> Tokens]} : n \in 3..MaxTokens}

\* Rows of the Tcorr tables: INDEX is 0 in a scene table and 1 in a monthly
\* table (lines 274-278).
SceneRow(sid, tcorr) == [SCENE_ID |-> sid, INDEX |-> 0, TCORR |-> tcorr]
MonthRow(tile, month, tcorr) ==
    [WRS2_TILE |-> tile, MONTH |-> month, INDEX |-> 1, TCORR |-> tcorr]

SceneTables ==
    {<<>>, <<SceneRow(Index0, 990)>>, <<SceneRow(IndexOther, 985)>>,
     <<SceneRow(IndexOther, 985), SceneRow(Index0, 990)>>}
MonthTables ==
    {<<>>, <<MonthRow(Tile0, 12, 970)>>, <<MonthRow(Tile0, 1, 965)>>,
     <<MonthRow(Tile0, 1, 965), MonthRow(Tile0, 12, 970)>>}

\* Every table id bound to the scene or the monthly content.
TablesOf(sc, mo) ==
    [id \in SceneTableIds \cup MonthTableIds |->
        IF id \in SceneTableIds THEN sc ELSE mo]

\* Every daily collection holding images at the given stamps.
DailyOf(stamps) == [id \in DailyIds |-> stamps]

DefaultDt == Kw("DAYMET_MEDIAN_V1")
DefaultElev == Kw("ASSET")
DefaultTcorrSource == Kw("SCENE")
DefaultTmax == Kw("TOPOWX_MEDIAN_V0")
DefaultTdiff == 1500

\* No call of collection() and none of _emissivity is under way.
NoArgs == [called |-> FALSE, variable |-> "", collections |-> <<>>,
           start_date |-> "", end_date |-> "", t_interval |-> "",
           geometry |-> "", kwargs |-> <<>>]
CollIdle ==
    coll_args = NoArgs /\ coll_ret = NoCall /\ mapped = <<>> /\ interp_calls = <<>>
EmisIdle == ndvi = [given |-> FALSE, n |-> 0] /\ emissivity = NoPixel
ReadersAtEntry == readers = [t \in Threads |-> ReaderAtEntry]

\* No Image instance.
ImageIdle ==
    /\ pc = "none"
    /\ index = NoString
    /\ time_start = 0
    /\ dt_source = DefaultDt
    /\ elev_source = DefaultElev
    /\ tcorr_source = DefaultTcorrSource
    /\ tmax_source = DefaultTmax
    /\ tdiff_threshold = DefaultTdiff
    /\ lst = 0
    /\ tables = TablesOf(<<>>, <<>>)
    /\ daily = DailyOf({})
    /\ dt_asset = 0
    /\ scene_id = NoString
    /\ wrs2_tile = NoString
    /\ lazy_etf = Unset
    /\ ret = NoCall
    /\ calls = NoCalls

\* The state before __init__ runs on the given arguments and assets.
ImageInit(Idx, Times, Dts, Elevs, Tcorrs, Tmaxs, Thrs, Lsts, Scs, Mos, Stamps, DtPx) ==
    /\ pc = "new"
    /\ index \in Idx
    /\ time_start \in Times
    /\ dt_source \in Dts
    /\ elev_source \in Elevs
    /\ tcorr_source \in Tcorrs
    /\ tmax_source \in Tmaxs
    /\ tdiff_threshold \in Thrs
    /\ lst \in Lsts
    /\ \E sc \in Scs, mo \in Mos : tables = TablesOf(sc, mo)
    /\ \E st \in Stamps : daily = DailyOf(st)
    /\ dt_asset \in DtPx
    /\ scene_id = NoString
    /\ wrs2_tile = NoString
    /\ lazy_etf = Unset
    /\ ret = NoCall
    /\ calls = NoCalls
    /\ CollIdle
    /\ EmisIdle
    /\ ReadersAtEntry

\* Selector values: recognized keywords in several letter cases, keywords
\* outside the recognized sets, numbers.
DtSources == {Kw("DAYMET_MEDIAN_V1"), Kw("daymet_median_v0"), Kw("DAYMET"), Num(1000)}
ElevSources == {Kw("ASSET"), Kw("srtm"), Kw("Users/me/dem"), Kw("BOGUS"), Num(100)}
TcorrSources == {Kw("SCENE"), Kw("scene"), Kw("Month"), Kw("MONTHLY"), Num(950)}
TmaxSources ==
    {Kw("CIMIS"), Kw("daymet"), Kw("Gridmet"), Kw("TOPOWX"), Kw("CIMIS_MEDIAN_V1"),
     Kw("DAYMET_MEDIAN_V0"), Kw("Daymet_Median_v1"), Kw("GRIDMET_MEDIAN_V1"),
     Kw("TOPOWX_MEDIAN_V0"), Kw("BOGUS"), Num(30500)}

\* Configurations of every kind on one scene.
Init ==
    ImageInit({Index0}, {18}, DtSources, ElevSources, TcorrSources, TmaxSources,
              {DefaultTdiff}, {30000}, {<<SceneRow(Index0, 990)>>},
              {<<MonthRow(Tile0, 12, 970)>>}, {{0}}, {1200})

Spec == Init /\ [][NextImage]_vars

\* Concurrent readers of etf on one instance, over configurations that
\* resolve and configurations that raise.
InitReaders ==
    ImageInit({Index0}, {18}, DtSources, {DefaultElev}, TcorrSources,
              {Kw("daymet"), Kw("TOPOWX"), Kw("TOPOWX_MEDIAN_V0"), Kw("BOGUS"),
               Num(30500)},
              {DefaultTdiff}, {30000}, {<<SceneRow(Index0, 990)>>},
              {<<MonthRow(Tile0, 12, 970)>>}, {{0}}, {1200})

SpecReaders == InitReaders /\ [][NextReaders]_vars

\* dT: numbers and asset pixels from -5 K to MaxDtStep K in whole kelvins,
\* the two recognized keywords in several letter cases and other keywords.
MaxDtStep == 30
DtValues == {100 * i : i \in (0 - 5)..MaxDtStep}
DtKeywords ==
    {Kw("DAYMET_MEDIAN_V0"), Kw("daymet_median_v0"), Kw("DAYMET_MEDIAN_V1"),
     Kw("Daymet_Median_v1"), Kw("DAYMET"), Kw("Gridmet"), Kw("TOPOWX_MEDIAN_V0"),
     Kw("BOGUS")}

InitDt ==
    ImageInit({Index0}, {18}, DtKeywords \cup {Num(v) : v \in DtValues},
              {DefaultElev}, {DefaultTcorrSource}, {DefaultTmax}, {DefaultTdiff},
              {30000}, {<<>>}, {<<>>}, {{}}, DtValues)

SpecDt == InitDt /\ [][NextDt]_vars

\* Tcorr: every selector pair over tables with and without matching rows,
\* for a plain and a merged index, in December and in January.
InitTcorr ==
    ImageInit({IndexMerged, IndexOther}, {18, 66}, {DefaultDt}, {DefaultElev},
              TcorrSources, TmaxSources, {DefaultTdiff}, {30000},
              SceneTables, MonthTables, {{0}}, {1200})

SpecTcorr == InitTcorr /\ [][NextImage]_vars

\* Tmax: every selector over daily collections with images on any of the
\* days around the scene's day.
DailyStamps == {0, 24, 48, 72}

InitTmax ==
    ImageInit({Index0}, {18, 42}, {DefaultDt}, {DefaultElev}, {Num(978)},
              TmaxSources, {DefaultTdiff}, {30000}, {<<>>}, {<<>>},
              SUBSET DailyStamps, {1200})

SpecTmax == InitTmax /\ [][NextImage]_vars

\* ETf pixels: numeric selectors, so that the pixel is a function of the
\* arguments alone.  lst runs from 280 K in steps of half a kelvin.
MaxLstStep == 80
LstValues == {28000 + 50 * i : i \in 0..MaxLstStep}

InitEtf ==
    ImageInit({Index0}, {18}, {Num(1000), Num(2200)}, {DefaultElev},
              {Num(900), Num(1000)}, {Num(30000), Num(31000)}, {500, DefaultTdiff},
              LstValues, {<<>>}, {<<>>}, {{}}, {1200})

SpecEtf == InitEtf /\ [][NextImage]_vars

\* Scene identity: every index of three to MaxTokens tokens.
InitScene ==
    ImageInit(Indexes, {18}, {DefaultDt}, {DefaultElev}, {DefaultTcorrSource},
              {DefaultTmax}, {DefaultTdiff}, {30000}, {<<SceneRow(Index0, 990)>>},
              {<<MonthRow(Tile0, 12, 970)>>}, {{0}}, {1200})

SpecScene == InitScene /\ [][NextImage]_vars

\* collection(): every variable name over every list of up to MaxColls ids.
MaxColls == 3
CollIds == landsat_c1_toa_collections \cup {"UNSUPPORTED_SENSOR", "LANDSAT/LC08/C01/T1_SR"}
Variables == {"etf", "ETF", "Etf", "NDVI", "ndvi", "lst", "_lst"}

InitColl ==
    /\ ImageIdle
    /\ EmisIdle
    /\ ReadersAtEntry
    /\ \E v \in Variables, n \in 0..MaxColls :
         \E cs \in [1..n -> CollIds] :
            coll_args = [called |-> TRUE, variable |-> v, collections |-> cs,
                         start_date |-> "2015-08-01", end_date |-> "2015-09-01",
                         t_interval |-> "daily", geometry |-> "geom",
                         kwargs |-> <<>>]
    /\ coll_ret = NoCall
    /\ mapped = <<>>
    /\ interp_calls = <<>>

SpecColl == InitColl /\ [][Collection]_vars

\* collection() under every kind of t_interval and of extra keyword
\* arguments, over lists that build and lists that raise.
TIntervals == {"daily", "monthly", "annual", "overpass", "weekly", ""}
Kwargs ==
    {<<>>, <<[key |-> "tmax_source", value |-> "DAYMET"]>>,
     <<[key |-> "interp_days", value |-> "10"]>>,
     <<[key |-> "interp_type", value |-> "nearest"],
       [key |-> "tcorr_source", value |-> "0.9"]>>}
CollLists ==
    {<<>>, <<"LANDSAT/LC08/C01/T1_TOA">>,
     <<"LANDSAT/LC08/C01/T1_RT_TOA", "LANDSAT/LE07/C01/T1_RT_TOA">>,
     <<"LANDSAT/LT05/C01/T1_TOA", "UNSUPPORTED_SENSOR">>}

InitInterval ==
    /\ ImageIdle
    /\ EmisIdle
    /\ ReadersAtEntry
    /\ \E v \in {"etf", "ETF", "NDVI"}, cs \in CollLists, ti \in TIntervals,
          kw \in Kwargs, sd \in {"2015-08-01", "2015-07-01"} :
            coll_args = [called |-> TRUE, variable |-> v, collections |-> cs,
                         start_date |-> sd, end_date |-> "2015-09-01",
                         t_interval |-> ti, geometry |-> "geom", kwargs |-> kw]
    /\ coll_ret = NoCall
    /\ mapped = <<>>
    /\ interp_calls = <<>>

SpecInterval == InitInterval /\ [][Collection]_vars

\* _emissivity: every NDVI of -MaxNdvi/50 .. MaxNdvi/50.
MaxNdvi == 50

InitEmis ==
    /\ ImageIdle
    /\ CollIdle
    /\ ReadersAtEntry
    /\ \E n \in (0 - MaxNdvi)..MaxNdvi : ndvi = [given |-> TRUE, n |-> n]
    /\ emissivity = NoPixel

SpecEmis == InitEmis /\ [][Emissivity]_vars

----------------------------------------------------------------------------
(* Properties.                                                             *)

Range(seq) == {seq[i] : i \in DOMAIN seq}

TcorrReturned == ret.op = "_tcorr" /\ ret.status = "ok"

\* The rows of the tables of the Tmax keyword that match the scene.
MonthlyMatches ==
    {f \in Range(tables[month_coll_dict[Upper(tmax_source.str)]]) :
        f.WRS2_TILE = wrs2_tile /\ f.MONTH = _month}
SceneMatches ==
    {f \in Range(tables[scene_coll_dict[Upper(tmax_source.str)]]) :
        f.SCENE_ID = scene_id}

\* The candidates C1 names: the default, each matching monthly row, and with
\* SCENE each matching scene row.
TcorrCandidates ==
    {[tcorr |-> 978, tcorr_index |-> 2]}
    \cup {[tcorr |-> f.TCORR, tcorr_index |-> 1] : f \in MonthlyMatches}
    \cup (IF Upper(tcorr_source.str) = "SCENE"
          THEN {[tcorr |-> f.TCORR, tcorr_index |-> 0] : f \in SceneMatches}
          ELSE {})

\* C1: with a keyword tcorr_source, what _tcorr returns is the candidate of
\* smallest index among the default (0.978, 2), the matching monthly row
\* (index 1) and, with SCENE only, the matching scene row (index 0); with
\* MONTH the index is never 0.
C1_TcorrPriority ==
    (TcorrReturned /\ ~tcorr_source.isnum) =>
        /\ ret.value \in TcorrCandidates
        /\ \A c \in TcorrCandidates : ret.value.tcorr_index <= c.tcorr_index
        /\ (SceneMatches # {} /\ MonthlyMatches # {}
            /\ Upper(tcorr_source.str) = "SCENE" => ret.value.tcorr_index = 0)
        /\ (SceneMatches = {} /\ MonthlyMatches # {} => ret.value.tcorr_index = 1)
        /\ (SceneMatches = {} /\ MonthlyMatches = {}
            => ret.value = [tcorr |-> 978, tcorr_index |-> 2])
        /\ (Upper(tcorr_source.str) = "MONTH" => ret.value.tcorr_index # 0)

\* A scene row and a monthly row both match and SCENE returned the scene row.
C1_Witness ==
    /\ TcorrReturned
    /\ tcorr_source = Kw("scene")
    /\ SceneMatches # {}
    /\ MonthlyMatches # {}
    /\ ret.value.tcorr_index = 0

\* C2: with a numeric tcorr_source, _tcorr returns (that value, 3) whatever
\* tmax_source is and whatever the tables hold.
C2_NumericTcorr ==
    (ret.op = "_tcorr" /\ tcorr_source.isnum) =>
        /\ ret.status = "ok"
        /\ ret.value = [tcorr |-> tcorr_source.val, tcorr_index |-> 3]

\* A numeric tcorr_source returned with an unrecognized tmax_source and
\* matching rows in both tables.
C2_Witness ==
    /\ TcorrReturned
    /\ tcorr_source = Num(950)
    /\ tmax_source = Kw("BOGUS")
    /\ \E f \in Range(tables["projects/usgs-ssebop/tcorr/daymet_scene"]) :
          f.SCENE_ID = scene_id
    /\ ret.value.tcorr_index = 3

EtfReturned == ret.op = "etf" /\ ret.status = "ok"

AllNumeric == tcorr_source.isnum /\ tmax_source.isnum /\ dt_source.isnum

\* raw = (tmax * tcorr - lst + dt) / dt as RawNum / RawDen, from the numeric
\* selectors (dt > 0).
RawNum == tmax_source.val * tcorr_source.val - 1000 * lst + 1000 * dt_source.val
RawDen == 1000 * dt_source.val

\* C3: a pixel of etf is masked when raw >= 1.3 and when tmax - lst exceeds
\* tdiff_threshold, and only then; an unmasked pixel holds raw clamped to
\* [0, 1.05].
C3_EtfMaskAndClamp ==
    (EtfReturned /\ AllNumeric) =>
        LET px == ret.value.px
        IN  /\ px.mask <=> ~(10 * RawNum >= 13 * RawDen)
                           /\ ~(tmax_source.val - lst > tdiff_threshold)
            /\ px.mask =>
                  /\ px.d = RawDen
                  /\ px.n >= 0
                  /\ 20 * px.n <= 21 * px.d
                  /\ px.n = (IF RawNum < 0 THEN 0
                             ELSE IF 20 * RawNum > 21 * RawDen THEN 21 * (RawDen \div 20)
                             ELSE RawNum)

\* raw is 1.35 with tmax - lst within the threshold, and the pixel is masked.
C3_Witness ==
    /\ EtfReturned
    /\ AllNumeric
    /\ 20 * RawNum = 27 * RawDen
    /\ tmax_source.val - lst <= tdiff_threshold
    /\ ~ret.value.px.mask

\* raw is 0.5 with tmax - lst = 20 K above the default threshold, masked.
C3_WitnessTdiff ==
    /\ EtfReturned
    /\ AllNumeric
    /\ 2 * RawNum = RawDen
    /\ tmax_source.val - lst = 2000
    /\ tdiff_threshold = 1500
    /\ ~ret.value.px.mask

\* The keywords each selector recognizes.
DtRecognized == {"DAYMET_MEDIAN_V0", "DAYMET_MEDIAN_V1"}
ElevRecognized == {"ASSET", "GTOPO", "NED", "SRTM"}
TcorrRecognized == {"SCENE", "MONTH"}
TmaxRecognized ==
    {"CIMIS", "DAYMET", "GRIDMET", "TOPOWX", "CIMIS_MEDIAN_V1", "DAYMET_MEDIAN_V0",
     "DAYMET_MEDIAN_V1", "GRIDMET_MEDIAN_V1", "TOPOWX_MEDIAN_V0"}

Unrecognized(src, known) == ~src.isnum /\ Upper(src.str) \notin known

\* An elevation source that is neither a keyword nor a path-style asset id.
ElevUnrecognized ==
    /\ Unrecognized(elev_source, ElevRecognized)
    /\ elev_source.str \notin {"Users/me/dem", "projects/usgs-ssebop/srtm_1km"}

\* C4: with an unrecognized keyword in any of the four selectors, a read of
\* etf ends in an error and stores no result.
C4_UnrecognizedKeywordFatal ==
    (ret.op = "etf"
     /\ (\/ Unrecognized(dt_source, DtRecognized)
         \/ ElevUnrecognized
         \/ Unrecognized(tcorr_source, TcorrRecognized)
         \/ Unrecognized(tmax_source, TmaxRecognized)))
    => (ret.status # "ok" /\ ~lazy_etf.set)

\* C4 for the three selectors etf resolves.
C4_ResolvedSelectorsFatal ==
    (ret.op = "etf"
     /\ (\/ Unrecognized(dt_source, DtRecognized)
         \/ Unrecognized(tcorr_source, TcorrRecognized)
         \/ Unrecognized(tmax_source, TmaxRecognized)))
    => (ret.status # "ok" /\ ~lazy_etf.set)

\* A read of etf returned a result under an unrecognized elev_source.
C4_Witness ==
    EtfReturned /\ ElevUnrecognized /\ lazy_etf.set

\* C5 as stated: the etf body and each resolver run at most once.
C5_AtMostOnce ==
    calls.etf <= 1 /\ calls.tcorr <= 1 /\ calls.tmax <= 1 /\ calls.dt <= 1

\* C5: once a read has returned, the body and each resolver have run once,
\* and every read returns the stored value; while no read has returned,
\* each read has run the body.
C5_MemoizedOnceReturned ==
    /\ lazy_etf.set =>
          /\ calls.etf = 1 /\ calls.tcorr = 1 /\ calls.tmax = 1 /\ calls.dt = 1
          /\ (ret.op = "etf" => ret.status = "ok" /\ ret.value = lazy_etf.value)
    /\ ~lazy_etf.set =>
          /\ calls.etf = calls.reads
          /\ (ret.op = "etf" => ret.status # "ok")

\* Three reads, one run of the body.
C5_Witness ==
    calls.reads = MaxReads /\ lazy_etf.set /\ calls.etf = 1 /\ ret.op = "etf"

CollectionCalled == coll_ret.op = "collection"

\* The variable names whose lower-cased form is 'etf'.
EtfNames == {"etf", "ETF", "Etf"}

Supported ==
    {"LANDSAT/LC08/C01/T1_RT_TOA", "LANDSAT/LE07/C01/T1_RT_TOA",
     "LANDSAT/LC08/C01/T1_TOA", "LANDSAT/LE07/C01/T1_TOA", "LANDSAT/LT05/C01/T1_TOA"}

HasUnsupportedId ==
    \E i \in DOMAIN coll_args.collections : coll_args.collections[i] \notin Supported

\* The position of the first unsupported id of the list.
FirstUnsupported ==
    CHOOSE i \in DOMAIN coll_args.collections :
        /\ coll_args.collections[i] \notin Supported
        /\ \A j \in 1..(i - 1) : coll_args.collections[j] \in Supported

\* C6 as stated: with a supported variable and an unsupported id anywhere in
\* the list, the call raises unsupported-collection, nothing was mapped and
\* the interpolation service was not called.
C6_NothingMapped ==
    (CollectionCalled /\ coll_args.variable \in EtfNames /\ HasUnsupportedId) =>
        /\ coll_ret.status = "ValueError: unsupported collection"
        /\ mapped = <<>>
        /\ interp_calls = <<>>

\* C6: with a supported variable and an unsupported id in the list, the call
\* raises unsupported-collection, returns nothing and does not call the
\* interpolation service; the per-scene function was mapped over exactly the
\* collections that stand before the first unsupported id.
C6_RaisesAtFirstUnsupported ==
    (CollectionCalled /\ coll_args.variable \in EtfNames /\ HasUnsupportedId) =>
        /\ coll_ret.status = "ValueError: unsupported collection"
        /\ coll_ret.value = <<>>
        /\ interp_calls = <<>>
        /\ Len(mapped) = FirstUnsupported - 1
        /\ \A i \in DOMAIN mapped : mapped[i].coll_id = coll_args.collections[i]

\* The call raised on the second id after mapping over the first.
C6_Witness ==
    /\ CollectionCalled
    /\ coll_args.variable = "ETF"
    /\ Len(coll_args.collections) >= 2
    /\ coll_args.collections[2] = "UNSUPPORTED_SENSOR"
    /\ coll_ret.status = "ValueError: unsupported collection"
    /\ Len(mapped) = 1

\* C7: a variable whose lower-cased form is not 'etf' raises
\* unsupported-variable before any collection id is examined, whatever the
\* list holds; 'etf' in any letter case does not.
C7_UnsupportedVariable ==
    CollectionCalled =>
        /\ coll_args.variable \notin EtfNames =>
              /\ coll_ret.status = "ValueError: unsupported variable"
              /\ mapped = <<>>
              /\ interp_calls = <<>>
        /\ coll_args.variable \in EtfNames =>
              coll_ret.status # "ValueError: unsupported variable"

\* 'NDVI' with an unsupported id in the list raised unsupported-variable.
C7_Witness ==
    /\ CollectionCalled
    /\ coll_args.variable = "NDVI"
    /\ HasUnsupportedId
    /\ coll_ret.status = "ValueError: unsupported variable"

TmaxCalled == ret.op = "_tmax"

DailyKeywords == {"CIMIS", "DAYMET", "GRIDMET"}

\* The daily collection and the median label of a daily keyword.
DailySourceOf(key) ==
    CASE key = "CIMIS" -> "projects/climate-engine/cimis/daily"
      [] key = "DAYMET" -> "NASA/ORNL/DAYMET_V3"
      [] key = "GRIDMET" -> "IDAHO_EPSCOR/GRIDMET"
MedianLabelOf(key) == IF key = "DAYMET" THEN <<"median_v0">> ELSE <<"median_v1">>

\* The scene's UTC day window [DayStart, DayEnd).
DayStart == 24 * (time_start \div 24)
DayEnd == DayStart + 24

HasDailyImage(key, from, to) ==
    \E t \in daily[DailySourceOf(key)] : from <= t /\ t < to

\* C8 as stated: a daily keyword gives the daily image, tagged today, exactly
\* when its daily source has an image in the scene's day window, and the
\* median composite with its median label otherwise; TMAX_SOURCE is the
\* selector as given.
C8_DailyIffImageInDayWindow ==
    (TmaxCalled /\ ~tmax_source.isnum /\ Upper(tmax_source.str) \in DailyKeywords) =>
        LET key == Upper(tmax_source.str)
        IN  /\ ret.status = "ok"
            /\ ret.value.TMAX_SOURCE = tmax_source
            /\ IF HasDailyImage(key, DayStart, DayEnd)
               THEN ret.value.TMAX_VERSION = <<"today">>
               ELSE ret.value.TMAX_VERSION = MedianLabelOf(key)

\* C8: as stated for CIMIS and GRIDMET; for DAYMET the window is the scene's
\* day and the day after, [DayStart, DayEnd + 1 day).
C8_DailyIffImageInKeywordWindow ==
    (TmaxCalled /\ ~tmax_source.isnum /\ Upper(tmax_source.str) \in DailyKeywords) =>
        LET key == Upper(tmax_source.str)
            to == IF key = "DAYMET" THEN DayEnd + 24 ELSE DayEnd
        IN  /\ ret.status = "ok"
            /\ ret.value.TMAX_SOURCE = tmax_source
            /\ IF HasDailyImage(key, DayStart, to)
               THEN ret.value.TMAX_VERSION = <<"today">>
               ELSE ret.value.TMAX_VERSION = MedianLabelOf(key)

\* DAYMET has no image on the scene's day but one on the next day, and the
\* result is tagged today.
C8_Witness ==
    /\ TmaxCalled
    /\ tmax_source = Kw("daymet")
    /\ ~HasDailyImage("DAYMET", DayStart, DayEnd)
    /\ HasDailyImage("DAYMET", DayEnd, DayEnd + 24)
    /\ ret.value.TMAX_VERSION = <<"today">>
    /\ ret.value.TMAX_SOURCE = Kw("daymet")

\* The number of '_' in a string.
Underscores(str) == Cardinality({i \in DOMAIN str : str[i] = "_"})

\* The characters a..b (counted from 0) of a string, as far as it has them.
CharsOf(str, a, b) ==
    [i \in 1..((IF b + 1 > Len(str) THEN Len(str) ELSE b + 1) - a) |-> str[a + i]]

\* C9: the scene id is the last three '_'-separated tokens of the index (the
\* part after the third '_' from the end, or the whole index), the tile is
\* 'p' + characters 5..7 + 'r' + characters 8..10 of the scene id, and the
\* index of the docstring, merged or not, gives p043r033.
C9_SceneIdentity ==
    pc = "ready" =>
        /\ Underscores(scene_id) = 2
        /\ \E k \in 0..Len(index) :
              /\ scene_id = SubSeq(index, k + 1, Len(index))
              /\ k > 0 => index[k] = "_"
        /\ wrs2_tile = <<"p">> \o CharsOf(scene_id, 5, 7) \o <<"r">>
                         \o CharsOf(scene_id, 8, 10)
        /\ (\/ index = Index0
            \/ (Len(index) > Len(Index0)
                /\ SubSeq(index, Len(index) - Len(Index0), Len(index))
                     = <<"_">> \o Index0))
           => wrs2_tile = <<"p", "0", "4", "3", "r", "0", "3", "3">>

\* A merged index dropped its leading token and gave p043r033.
C9_Witness ==
    /\ pc = "ready"
    /\ index = IndexMerged
    /\ scene_id = Index0
    /\ wrs2_tile = <<"p", "0", "4", "3", "r", "0", "3", "3">>

AllReturned == \A t \in Threads : readers[t].pc = "returned"

\* C11: when every concurrent reader of etf has received a result, the body
\* of etf and each resolver have run once, and every reader holds the result
\* of that one computation, the stored one.
C11_SingleComputation ==
    AllReturned =>
        /\ calls.etf = 1 /\ calls.tcorr = 1 /\ calls.tmax = 1 /\ calls.dt = 1
        /\ \A t \in Threads : readers[t].out = Called("etf", Ok(lazy_etf.value))

\* Two readers passed the hasattr test before either stored: both ran the
\* body, both returned.
C11_Witness ==
    /\ AllReturned
    /\ calls.etf = MaxThreads
    /\ calls.tcorr = MaxThreads
    /\ \A t \in Threads : readers[t].out.status = "ok"

\* A call of _tcorr under a recognized Tmax keyword and SCENE or MONTH.
TcorrCalledRecognized ==
    /\ ret.op = "_tcorr"
    /\ ~tmax_source.isnum
    /\ ~tcorr_source.isnum
    /\ Upper(tmax_source.str) \in TmaxRecognized
    /\ Upper(tcorr_source.str) \in TcorrRecognized

\* What C12 says of a call that returned.
OneRecordOfIndex0to2 ==
    /\ ret.value.tcorr_index \in {0, 1, 2}
    /\ (MonthlyMatches = {}
        /\ (Upper(tcorr_source.str) = "SCENE" => SceneMatches = {})
        => ret.value = [tcorr |-> 978, tcorr_index |-> 2])

\* C12: for each of the nine recognized Tmax keywords (any letter case) and
\* tcorr_source SCENE or MONTH, _tcorr returns one record whose index is 0,
\* 1 or 2, and (0.978, 2) when no row of the tables matches.
C12_NineKeywordsComplete ==
    TcorrCalledRecognized => (ret.status = "ok" /\ OneRecordOfIndex0to2)

\* C12 for the eight keywords the lookup dictionaries hold.
C12_EightKeywordsComplete ==
    (TcorrCalledRecognized /\ Upper(tmax_source.str) # "TOPOWX")
    => (ret.status = "ok" /\ OneRecordOfIndex0to2)

\* TOPOWX passed the check of lines 323-328 and the lookup of the monthly
\* table id raised KeyError.
C12_Witness ==
    /\ ret.op = "_tcorr"
    /\ tmax_source = Kw("TOPOWX")
    /\ tcorr_source = Kw("Month")
    /\ ret.status = "KeyError"

\* C13: _dt returns a numeric dt_source as it is, unclamped (0 and values
\* outside [6, 25] K included); for DAYMET_MEDIAN_V0 and DAYMET_MEDIAN_V1 in
\* any letter case it returns the asset's value of the day clamped to
\* [6, 25] K; for any other keyword the call ends in the fatal exit.
C13_DtResolution ==
    ret.op = "_dt" =>
        /\ dt_source.isnum =>
              (ret.status = "ok" /\ ret.value = dt_source.val)
        /\ (~dt_source.isnum /\ Upper(dt_source.str) \in DtRecognized) =>
              /\ ret.status = "ok"
              /\ ret.value >= 600
              /\ ret.value <= 2500
              /\ ret.value = (IF dt_asset < 600 THEN 600
                              ELSE IF dt_asset > 2500 THEN 2500 ELSE dt_asset)
        /\ (~dt_source.isnum /\ Upper(dt_source.str) \notin DtRecognized) =>
              ret.status = "SystemExit"

\* dt_source 0 came back as 0.
C13_Witness ==
    /\ ret.op = "_dt"
    /\ dt_source = Num(0)
    /\ ret.status = "ok"
    /\ ret.value = 0

\* A lower-case keyword over an asset value of 30 K came back as 25 K.
C13_WitnessClamped ==
    /\ ret.op = "_dt"
    /\ dt_source = Kw("daymet_median_v0")
    /\ dt_asset = 3000
    /\ ret.value = 2500

\* What the call does to one collection, from the arguments other than
\* t_interval and kwargs: the scenes of [start_date, end_date) over the
\* geometry, each Image built with no keyword argument.
ExpectedMap(k) ==
    [coll_id |-> coll_args.collections[k], start_date |-> coll_args.start_date,
     end_date |-> coll_args.end_date, geometry |-> coll_args.geometry,
     image_kwargs |-> <<>>, variable |-> "etf"]

\* The one call of the interpolation service C14 names.
ExpectedInterp ==
    [et_reference_coll |-> [id |-> "IDAHO_EPSCOR/GRIDMET", band |-> "etr",
                            start_date |-> coll_args.start_date,
                            end_date |-> coll_args.end_date],
     variable_coll |-> [k \in 1..Len(coll_args.collections) |-> ExpectedMap(k)],
     interp_days |-> 32,
     interp_type |-> "linear"]

DtResolves == dt_source.isnum \/ Upper(dt_source.str) \in DtRecognized

C15_WitnessBothNumeric ==
    /\ EtfReturned
    /\ tmax_source = Num(30500)
    /\ tcorr_source = Num(950)
    /\ ret.value.TCORR_INDEX = 3

====
